---- MODULE Spec2Model ----
(***************************************************************************)
(* A model of src/main.py: the price-table parser retrieve_flat_prices,    *)
(* the NeighbourhoodPrices snapshot and the CityPrices collection.         *)
(*                                                                         *)
(* Python values are modelled as follows.                                  *)
(*   str            a sequence of one-character strings                    *)
(*   int / str      a tagged record, PyInt(n) or PyStr(s), where the code  *)
(*                  keeps the two apart (retrieve_flat_prices stores ints  *)
(*                  in one branch and strs in the other)                   *)
(*   dict           a sequence of [k, v] records in insertion order, keys  *)
(*                  written through DictSet only                           *)
(*   an exception   the name of its class                                  *)
(***************************************************************************)
EXTENDS Integers, Sequences, FiniteSets, TLC

\* ------------------------------------------------------------------ bounds

\* Longest neighbourhood list a CityPrices is constructed with.
MaxNeighbs == 3
\* Number of calendar days the clock runs through.
MaxDate == 2
\* Number of get_prices / update_prices calls made on one CityPrices.
MaxCalls == 2
\* Most table cells in a page handed to the parser.
MaxCells == 2

\* ------------------------------------------------------------ Python values

PyInt(n) == [t |-> "int", i |-> n, s |-> <<>>]
PyStr(str) == [t |-> "str", i |-> 0, s |-> str]

Digits == {"0", "1", "2", "3", "4", "5", "6", "7", "8", "9"}
\* The characters \s matches among those the model uses.
Whitespace == {" ", "\n"}

DigitVal(c) ==
    CASE c = "0" -> 0 [] c = "1" -> 1 [] c = "2" -> 2 [] c = "3" -> 3
      [] c = "4" -> 4 [] c = "5" -> 5 [] c = "6" -> 6 [] c = "7" -> 7
      [] c = "8" -> 8 [] c = "9" -> 9

IsDigit(c) == c \in Digits
IsDigitOrSpace(c) == c \in Digits \cup Whitespace

\* Length of the longest run of digits of s that starts at position i.
RECURSIVE DigitRun(_, _)
DigitRun(s, i) ==
    IF i <= Len(s) /\ IsDigit(s[i]) THEN 1 + DigitRun(s, i + 1) ELSE 0

\* Length of the longest run of [\d\s] characters of s that starts at i.
RECURSIVE ClassRun(_, _)
ClassRun(s, i) ==
    IF i <= Len(s) /\ IsDigitOrSpace(s[i]) THEN 1 + ClassRun(s, i + 1) ELSE 0

\* str.replace(" ", ""): only the space character is removed.
RemoveSpaces(s) == SelectSeq(s, LAMBDA c : c # " ")

\* str.strip() as int() applies it: leading and trailing whitespace.
RECURSIVE StripLeft(_)
StripLeft(s) ==
    IF s # <<>> /\ Head(s) \in Whitespace THEN StripLeft(Tail(s)) ELSE s

RECURSIVE StripRight(_)
StripRight(s) ==
    IF s # <<>> /\ s[Len(s)] \in Whitespace
    THEN StripRight(SubSeq(s, 1, Len(s) - 1))
    ELSE s

Strip(s) == StripLeft(StripRight(s))

RECURSIVE DigitsValue(_)
DigitsValue(s) ==
    IF s = <<>> THEN 0
    ELSE 10 * DigitsValue(SubSeq(s, 1, Len(s) - 1)) + DigitVal(s[Len(s)])

\* int(x): an int is returned as it is; a str is stripped and must then be
\* a non-empty run of digits, otherwise ValueError.
IntOf(x) ==
    IF x.t = "int" THEN [ok |-> TRUE, i |-> x.i]
    ELSE LET body == Strip(x.s)
         IN  IF body # <<>> /\ \A k \in 1..Len(body) : IsDigit(body[k])
             THEN [ok |-> TRUE, i |-> DigitsValue(body)]
             ELSE [ok |-> FALSE, i |-> 0]

\* ------------------------------------------------------------------- dicts

DictKeys(d) == {d[k].k : k \in 1..Len(d)}
DictHas(d, key) == key \in DictKeys(d)
DictGet(d, key) == d[CHOOSE k \in 1..Len(d) : d[k].k = key].v

\* d[key] = val: an existing key keeps its place and gets the new value, a
\* new key is appended.
DictSet(d, key, val) ==
    IF DictHas(d, key)
    THEN [k \in 1..Len(d) |-> IF d[k].k = key THEN [k |-> key, v |-> val] ELSE d[k]]
    ELSE Append(d, [k |-> key, v |-> val])

\* list.remove(x): the first occurrence of x is removed.
ListRemove(l, x) ==
    LET at == CHOOSE k \in 1..Len(l) : l[k] = x /\ \A j \in 1..(k - 1) : l[j] # x
    IN  SubSeq(l, 1, at - 1) \o SubSeq(l, at + 1, Len(l))

\* ------------------------------------------------------- retrieve_flat_prices

\* A page as BeautifulSoup presents it to the parser: "none" is the absent
\* page (None); otherwise the markup either has an element of class
\* "pricing" or has none, and the pricing section holds the class-less td
\* cells in document order, each with the string of its span (label) and the
\* text that follows the span (text).
NonePage == [kind |-> "none", pricing |-> FALSE, cells |-> <<>>]
HtmlPage(cells) == [kind |-> "html", pricing |-> TRUE, cells |-> cells]
NoSectionPage == [kind |-> "html", pricing |-> FALSE, cells |-> <<>>]
\* Empty content (b""): a 200 response with no body.
EmptyPage == [kind |-> "empty", pricing |-> FALSE, cells |-> <<>>]

\* re.match("\d+", label): the leading run of digits, or no match.
MatchRoom(label) ==
    LET n == DigitRun(label, 1)
    IN  [matched |-> n > 0, g |-> SubSeq(label, 1, n)]

\* re.match("([\d\s]+) - ([\d\s]+)", text). Group 1 is greedy and backs off
\* to the longest prefix after which " - " and one more [\d\s] character
\* follow; group 2 is then the longest run of [\d\s].
MatchRange(text) ==
    LET cands == {i \in 1..ClassRun(text, 1) :
                     /\ i + 4 <= Len(text)
                     /\ SubSeq(text, i + 1, i + 3) = <<" ", "-", " ">>
                     /\ IsDigitOrSpace(text[i + 4])}
    IN  IF cands = {}
        THEN [matched |-> FALSE, g1 |-> <<>>, g2 |-> <<>>]
        ELSE LET i == CHOOSE c \in cands : \A o \in cands : o <= c
             IN  [matched |-> TRUE,
                  g1 |-> SubSeq(text, 1, i),
                  g2 |-> SubSeq(text, i + 4, i + 3 + ClassRun(text, i + 4))]

\* re.match("[\d\s]+", text): the leading run of [\d\s], or no match.
MatchSingle(text) ==
    LET n == ClassRun(text, 1)
    IN  [matched |-> n > 0, g |-> SubSeq(text, 1, n)]

ParseOk(prices) == [st |-> "ok", exc |-> "", val |-> prices]
ParseNone == [st |-> "none", exc |-> "", val |-> <<>>]
ParseRaise(e) == [st |-> "raise", exc |-> e, val |-> <<>>]

\* The value stored for a cell whose text is a single price: the matched
\* text with its spaces removed, kept as a str, twice.
SingleBranch(g) == <<PyStr(RemoveSpaces(g)), PyStr(RemoveSpaces(g))>>

\* The value stored for a cell whose text is a range: both groups with
\* their spaces removed and converted by int().
RangeBranch(lo, hi) == <<PyInt(lo), PyInt(hi)>>

\* The key a cell is stored under: the matched digits, as a str.
RoomKey(g) == PyStr(g)

\* The body of the for loop, from cell k on, with the dict built so far.
RECURSIVE ParseCells(_, _, _)
ParseCells(cells, k, prices) ==
    IF k > Len(cells) THEN ParseOk(prices)
    ELSE LET room == MatchRoom(cells[k].label)
             range == MatchRange(cells[k].text)
             single == MatchSingle(cells[k].text)
             lo == IntOf(PyStr(RemoveSpaces(range.g1)))
             hi == IntOf(PyStr(RemoveSpaces(range.g2)))
         IN  IF ~room.matched THEN ParseRaise("AttributeError")
             ELSE IF range.matched
             THEN IF ~lo.ok \/ ~hi.ok THEN ParseRaise("ValueError")
                  ELSE ParseCells(cells, k + 1,
                           DictSet(prices, RoomKey(room.g), RangeBranch(lo.i, hi.i)))
             ELSE IF ~single.matched THEN ParseRaise("AttributeError")
             ELSE ParseCells(cells, k + 1,
                      DictSet(prices, RoomKey(room.g), SingleBranch(single.g)))

retrieve_flat_prices(html_content) ==
    IF html_content.kind = "none" THEN ParseNone
    ELSE IF ~html_content.pricing THEN ParseRaise("IndexError")
    ELSE ParseCells(html_content.cells, 1, <<>>)

\* -------------------------------------------------------- NeighbourhoodPrices

\* Dates: a datetime object or the str that strftime('%Y-%m-%d') makes of
\* it; d is the calendar day.
DateTime(d) == [t |-> "datetime", d |-> d]
Strftime(dt) == [t |-> "str", d |-> dt.d]

NoSnapshot ==
    [date |-> DateTime(0), name |-> "", rooms |-> <<>>, min_prices |-> <<>>,
     max_prices |-> <<>>, avg_prices |-> <<>>]

NewOk(snap) == [st |-> "ok", exc |-> "", val |-> snap]
NewRaise(e) == [st |-> "raise", exc |-> e, val |-> NoSnapshot]

\* The for loop of __init__ over neighb_prices.items(), from item k on.
RECURSIVE InitItems(_, _, _)
InitItems(items, k, snap) ==
    IF k > Len(items) THEN NewOk(snap)
    ELSE LET lo == IntOf(items[k].v[1])
             hi == IntOf(items[k].v[2])
             rooms == IntOf(items[k].k)
         IN  IF ~lo.ok \/ ~hi.ok \/ ~rooms.ok THEN NewRaise("ValueError")
             ELSE InitItems(items, k + 1,
                      [snap EXCEPT !.min_prices = Append(@, lo.i),
                                   !.max_prices = Append(@, hi.i),
                                   !.avg_prices = Append(@, (lo.i + lo.i) \div 2),
                                   !.rooms = Append(@, rooms.i)])

\* NeighbourhoodPrices(date, neighb_name, neighb_prices), neighb_prices being
\* what retrieve_flat_prices returned: None has no keys().
NeighbourhoodPrices(date, neighb_name, neighb_prices) ==
    IF neighb_prices.st = "none" THEN NewRaise("AttributeError")
    ELSE InitItems(neighb_prices.val, 1,
             [NoSnapshot EXCEPT !.date = date, !.name = neighb_name])

\* The indices __str__ renders a row for: range(0, len(self.rooms) - 1),
\* here counted from 1.
StrRange(snap) == 1..(Len(snap.rooms) - 1)

StrRow(snap, i) ==
    <<snap.rooms[i], snap.min_prices[i], snap.max_prices[i], snap.avg_prices[i]>>

\* __str__: the rendered rows after the header; self.date.strftime exists
\* on a datetime only.
Str(snap) ==
    IF snap.date.t # "datetime"
    THEN [st |-> "raise", exc |-> "AttributeError", rows |-> <<>>]
    ELSE [st |-> "ok", exc |-> "",
          rows |-> [i \in StrRange(snap) |-> StrRow(snap, i)]]

\* to_dict as rows: the six columns, read row by row.
ToDictRows(snap) ==
    [i \in 1..Len(snap.rooms) |->
        [Neighbourhood |-> snap.name, Date |-> snap.date,
         Rooms |-> snap.rooms[i], MinPrice |-> snap.min_prices[i],
         MaxPrice |-> snap.max_prices[i], AvgPrice |-> snap.avg_prices[i]]]

\* ------------------------------------------------------------------ state

VARIABLES
    \* CityPrices: self.neighbs and self.data (date -> name -> snapshot).
    neighbs, data,
    \* The operation in progress on the CityPrices, or the last one finished:
    \* "idle" (constructed), "loop" (inside get_prices), "returned"
    \* (get_prices returned), "updated", "dfdone", "raised" (an exception
    \* left the operation; main() does not catch it), "off".
    pc,
    \* The exception that was raised, "" if none.
    exc,
    \* get_prices locals: the list iterator's position, results and now.
    idx, results, now,
    \* self.neighbs and self.data as they stood when get_prices was called.
    neighbs0, data0,
    \* get_page_content: the calls made by the current get_prices, each with
    \* the neighbourhood asked for and whether content came back.
    fetchLog,
    \* datetime.datetime.now(): the calendar day.
    today,
    \* The number of get_prices and update_prices calls made.
    calls,
    \* What to_df returned.
    dfRes,
    \* One page taken through the parser, the snapshot constructor and the
    \* snapshot's renderings: the position, the inputs and each result.
    p_pc, p_html, p_date, p_prices, p_snap, p_str, p_rows

cityVars == <<neighbs, data, pc, exc, idx, results, now, neighbs0, data0,
              fetchLog, today, calls, dfRes>>
pipeVars == <<p_pc, p_html, p_date, p_prices, p_snap, p_str, p_rows>>
vars == <<cityVars, pipeVars>>

\* ------------------------------------------------------------------ inputs

Chars(n) ==
    CASE n = 0 -> "0" [] n = 1 -> "1" [] n = 2 -> "2" [] n = 3 -> "3"
      [] n = 4 -> "4" [] n = 5 -> "5" [] n = 6 -> "6" [] n = 7 -> "7"
      [] n = 8 -> "8" [] n = 9 -> "9"

\* The decimal digits of n, and its last three digits with leading zeros.
RECURSIVE Decimal(_)
Decimal(n) == IF n < 10 THEN <<Chars(n)>> ELSE Append(Decimal(n \div 10), Chars(n % 10))

Group3(n) == <<Chars((n \div 100) % 10), Chars((n \div 10) % 10), Chars(n % 10)>>

\* n as the site prints a price: groups of three digits separated by spaces.
RECURSIVE PriceText(_)
PriceText(n) ==
    IF n < 1000 THEN Decimal(n)
    ELSE PriceText(n \div 1000) \o <<" ">> \o Group3(n % 1000)

RoomLabel(r) == Decimal(r) \o <<" ", "p", "o", "k", ".">>

\* The cells of the claim's shape: a room-count label with a range "A - B"
\* or a single value "A". room, lo and hi are what the cell was printed from.
Amounts == {450000, 500000, 600000}
RoomCounts == {2, 3}

RangeCell(r, a, b) ==
    [label |-> RoomLabel(r),
     text |-> PriceText(a) \o <<" ", "-", " ">> \o PriceText(b)]
SingleCell(r, a) == [label |-> RoomLabel(r), text |-> PriceText(a)]

\* What a well-formed cell is printed from: a single value has hi = lo.
Printed ==
    {c \in [room : RoomCounts, lo : Amounts, hi : Amounts, range : BOOLEAN] :
        IF c.range THEN c.lo < c.hi ELSE c.lo = c.hi}

PrintCell(c) == IF c.range THEN RangeCell(c.room, c.lo, c.hi) ELSE SingleCell(c.room, c.lo)

WellFormedCells == {PrintCell(c) : c \in Printed}

\* Cells outside that shape: a price that is neither pattern, a label with
\* no leading digits, and a price followed by a line break.
OtherCells ==
    { [label |-> RoomLabel(2), text |-> <<"o", "d", " ", "5">>],
      [label |-> <<"p", "o", "k", ".">>, text |-> PriceText(600000)],
      [label |-> RoomLabel(3), text |-> PriceText(600000) \o <<"\n">>] }

RECURSIVE SeqsUpTo(_, _)
SeqsUpTo(S, n) ==
    IF n = 0 THEN {<<>>}
    ELSE LET shorter == SeqsUpTo(S, n - 1)
         IN  shorter \cup {Append(q, x) : q \in shorter, x \in S}

\* The page of the specification's end-to-end example and a one-cell page.
ExamplePage == HtmlPage(<<RangeCell(2, 450000, 500000), SingleCell(3, 600000)>>)
OneCellPage == HtmlPage(<<SingleCell(2, 600000)>>)

\* Pages handed to the parser on its own.
PipePages ==
    {NonePage, NoSectionPage}
    \cup {HtmlPage(c) : c \in SeqsUpTo(WellFormedCells \cup OtherCells, MaxCells)}

\* What get_page_content gives get_prices: an exception of requests.get,
\* None for a status other than 200, or the content of a 200 response.
FetchOutcomes ==
    { [raised |-> TRUE, page |-> NonePage],
      [raised |-> FALSE, page |-> NonePage],
      [raised |-> FALSE, page |-> EmptyPage],
      [raised |-> FALSE, page |-> NoSectionPage],
      [raised |-> FALSE, page |-> ExamplePage] }

Ids == {"", "a", "b"}
Days == 1..MaxDate

Unbound == [t |-> "unbound", d |-> 0]
NoDf == [st |-> "none", exc |-> "", rows |-> <<>>]

\* update_prices arguments: a date, a datetime as the signature says, and a
\* mapping of the shape self.data holds per date.
UpdateDates == {DateTime(d) : d \in Days}
UpdateLists(date) ==
    { <<>>,
      <<[k |-> "a", v |-> NeighbourhoodPrices(date, "a", retrieve_flat_prices(OneCellPage)).val]>> }

\* -------------------------------------------------------------- CityPrices

PipeOff ==
    /\ p_pc = "off"
    /\ p_html = NonePage
    /\ p_date = DateTime(0)
    /\ p_prices = ParseNone
    /\ p_snap = NewOk(NoSnapshot)
    /\ p_str = [st |-> "none", exc |-> "", rows |-> <<>>]
    /\ p_rows = <<>>

\* CityPrices(location, available_neighbs)
CityInit ==
    /\ neighbs \in SeqsUpTo(Ids, MaxNeighbs)
    /\ data = <<>>
    /\ pc = "idle"
    /\ exc = ""
    /\ idx = 1
    /\ results = <<>>
    /\ now = Unbound
    /\ neighbs0 = <<>>
    /\ data0 = <<>>
    /\ fetchLog = <<>>
    /\ today = 1
    /\ calls = 0
    /\ dfRes = NoDf

Init == CityInit /\ PipeOff

\* A caller may start an operation when none is in progress and no
\* exception has ended the program. to_df reads and changes nothing, so a
\* run is followed up to its to_df and not beyond it.
Ready == pc \in {"idle", "returned", "updated"}

\* get_prices, line 120: results = {}; the for statement takes an iterator.
GetPricesCall ==
    /\ Ready
    /\ calls < MaxCalls
    /\ calls' = calls + 1
    /\ pc' = "loop"
    /\ idx' = 1
    /\ results' = <<>>
    /\ now' = Unbound
    /\ neighbs0' = neighbs
    /\ data0' = data
    /\ fetchLog' = <<>>
    /\ UNCHANGED <<neighbs, data, exc, today, dfRes>>

\* One pass of the loop body for a non-empty identifier whose fetch gave
\* `out`, the date having been read as `date`.
Fetched(neighb, date, out) ==
    LET logged == Append(fetchLog, [id |-> neighb, ok |-> ~out.raised /\ out.page.kind = "html"])
        prices == retrieve_flat_prices(out.page)
        snap == NeighbourhoodPrices(date, neighb, prices)
    IN  /\ fetchLog' = logged
        /\ IF out.raised
           THEN /\ pc' = "raised" /\ exc' = "ConnectionError"
                /\ UNCHANGED <<neighbs, results>>
           ELSE IF out.page.kind # "html"
           THEN /\ neighbs' = ListRemove(neighbs, neighb)
                /\ UNCHANGED <<pc, exc, results>>
           ELSE IF prices.st = "raise"
           THEN /\ pc' = "raised" /\ exc' = prices.exc
                /\ UNCHANGED <<neighbs, results>>
           ELSE IF snap.st = "raise"
           THEN /\ pc' = "raised" /\ exc' = snap.exc
                /\ UNCHANGED <<neighbs, results>>
           ELSE /\ results' = DictSet(results, neighb, snap.val)
                /\ UNCHANGED <<neighbs, pc, exc>>

\* The list iterator: the element at its position, if there is one, and the
\* position moves on, whatever the body does to the list.
GetPricesIter ==
    /\ pc = "loop"
    /\ idx <= Len(neighbs)
    /\ idx' = idx + 1
    /\ LET neighb == neighbs[idx]
       IN  IF neighb # ""
           THEN /\ now' = Strftime(DateTime(today))
                /\ \E out \in FetchOutcomes : Fetched(neighb, now', out)
           ELSE /\ neighbs' = ListRemove(neighbs, neighb)
                /\ UNCHANGED <<now, results, fetchLog, pc, exc>>
    /\ UNCHANGED <<data, neighbs0, data0, today, calls, dfRes>>

\* self.data[now] = results
StoreMerged(d, key, res) ==
    IF DictHas(d, key)
    THEN DictSet(d, key,
             DictGet(d, key) \o SelectSeq(res, LAMBDA e : ~DictHas(DictGet(d, key), e.k)))
    ELSE DictSet(d, key, res)

StoreResults(d, key, res) == DictSet(d, key, res)

\* The iterator is exhausted; line 133 reads now, which is bound only if
\* the body took the non-empty branch at least once.
GetPricesReturn ==
    /\ pc = "loop"
    /\ idx > Len(neighbs)
    /\ IF now = Unbound
       THEN /\ pc' = "raised" /\ exc' = "UnboundLocalError"
            /\ UNCHANGED data
       ELSE /\ pc' = "returned"
            /\ data' = StoreResults(data, now, results)
            /\ UNCHANGED exc
    /\ UNCHANGED <<neighbs, idx, results, now, neighbs0, data0, fetchLog,
                   today, calls, dfRes>>

\* update_prices(date, neighb_list). The locals of an earlier get_prices and
\* the record of its call are gone.
UpdatePrices ==
    /\ Ready
    /\ calls < MaxCalls
    /\ calls' = calls + 1
    /\ \E date \in UpdateDates : \E neighb_list \in UpdateLists(date) :
           data' = DictSet(data, date, neighb_list)
    /\ pc' = "updated"
    /\ idx' = 1
    /\ results' = <<>>
    /\ now' = Unbound
    /\ neighbs0' = <<>>
    /\ data0' = <<>>
    /\ fetchLog' = <<>>
    /\ UNCHANGED <<neighbs, exc, today, dfRes>>

\* The frames one date's entry contributes: one per snapshot, in order.
Frames(neighbs_dict) == [k \in 1..Len(neighbs_dict) |-> ToDictRows(neighbs_dict[k].v)]

\* What the loop does with the frames of a date, given those it holds:
\* results is assigned anew on every pass.
KeepLast(held, frames) == frames

\* The for loop of to_df over self.data.items(), from item k on.
RECURSIVE ToDfLoop(_, _, _)
ToDfLoop(d, k, held) ==
    IF k > Len(d) THEN held
    ELSE ToDfLoop(d, k + 1, KeepLast(held, Frames(d[k].v)))

RECURSIVE Concat(_)
Concat(frames) == IF frames = <<>> THEN <<>> ELSE Head(frames) \o Concat(Tail(frames))

\* to_df: None for an empty self.data; pd.concat raises ValueError when it
\* is given no frame.
to_df(d) ==
    IF d = <<>> THEN NoDf
    ELSE LET held == ToDfLoop(d, 1, <<>>)
         IN  IF held = <<>>
             THEN [st |-> "raise", exc |-> "ValueError", rows |-> <<>>]
             ELSE [st |-> "ok", exc |-> "", rows |-> Concat(held)]

ToDf ==
    /\ Ready
    /\ dfRes' = to_df(data)
    /\ pc' = IF dfRes'.st = "raise" THEN "raised" ELSE "dfdone"
    /\ exc' = dfRes'.exc
    /\ UNCHANGED <<neighbs, data, idx, results, now, neighbs0, data0, fetchLog,
                   today, calls>>

\* Midnight passes.
Tick ==
    /\ today < MaxDate
    /\ pc \notin {"raised", "dfdone"}
    /\ today' = today + 1
    /\ UNCHANGED <<neighbs, data, pc, exc, idx, results, now, neighbs0, data0,
                   fetchLog, calls, dfRes>>

Next ==
    \/ GetPricesCall /\ UNCHANGED pipeVars
    \/ GetPricesIter /\ UNCHANGED pipeVars
    \/ GetPricesReturn /\ UNCHANGED pipeVars
    \/ UpdatePrices /\ UNCHANGED pipeVars
    \/ ToDf /\ UNCHANGED pipeVars
    \/ Tick /\ UNCHANGED pipeVars

Spec == Init /\ [][Next]_vars

\* A run in which self.data is written by get_prices only.
NextRuns ==
    \/ GetPricesCall /\ UNCHANGED pipeVars
    \/ GetPricesIter /\ UNCHANGED pipeVars
    \/ GetPricesReturn /\ UNCHANGED pipeVars
    \/ ToDf /\ UNCHANGED pipeVars
    \/ Tick /\ UNCHANGED pipeVars

SpecRuns == Init /\ [][NextRuns]_vars

\* ------------------------------------------ the parser and the snapshot alone

CityOff ==
    /\ neighbs = <<>>
    /\ data = <<>>
    /\ pc = "off"
    /\ exc = ""
    /\ idx = 1
    /\ results = <<>>
    /\ now = Unbound
    /\ neighbs0 = <<>>
    /\ data0 = <<>>
    /\ fetchLog = <<>>
    /\ today = 1
    /\ calls = 0
    /\ dfRes = NoDf

\* A page, and the date a snapshot of it is given: a datetime, as the
\* constructor documents, or the str get_prices passes.
PipeInit ==
    /\ p_pc = "input"
    /\ p_html \in PipePages
    /\ p_date \in {DateTime(1), Strftime(DateTime(1))}
    /\ p_prices = ParseNone
    /\ p_snap = NewOk(NoSnapshot)
    /\ p_str = [st |-> "none", exc |-> "", rows |-> <<>>]
    /\ p_rows = <<>>

\* prices = retrieve_flat_prices(html_content)
PipeParse ==
    /\ p_pc = "input"
    /\ p_prices' = retrieve_flat_prices(p_html)
    /\ p_pc' = IF p_prices'.st = "raise" THEN "parse_raised" ELSE "parsed"
    /\ UNCHANGED <<p_html, p_date, p_snap, p_str, p_rows>>

\* NeighbourhoodPrices(date, name, prices)
PipeNew ==
    /\ p_pc = "parsed"
    /\ p_snap' = NeighbourhoodPrices(p_date, "a", p_prices)
    /\ p_pc' = IF p_snap'.st = "raise" THEN "new_raised" ELSE "built"
    /\ UNCHANGED <<p_html, p_date, p_prices, p_str, p_rows>>

\* str(snapshot)
PipeStr ==
    /\ p_pc \in {"built", "converted"}
    /\ p_str' = Str(p_snap.val)
    /\ p_pc' = IF p_str'.st = "raise" THEN "str_raised" ELSE "rendered"
    /\ UNCHANGED <<p_html, p_date, p_prices, p_snap, p_rows>>

\* snapshot.to_dict()
PipeToDict ==
    /\ p_pc = "built"
    /\ p_rows' = ToDictRows(p_snap.val)
    /\ p_pc' = "converted"
    /\ UNCHANGED <<p_html, p_date, p_prices, p_snap, p_str>>

PipeNext ==
    \/ PipeParse /\ UNCHANGED cityVars
    \/ PipeNew /\ UNCHANGED cityVars
    \/ PipeStr /\ UNCHANGED cityVars
    \/ PipeToDict /\ UNCHANGED cityVars

InitPipe == CityOff /\ PipeInit

SpecPipe == InitPipe /\ [][PipeNext]_vars

\* ------------------------------------------------------------------ claims

FetchedIds == [k \in 1..Len(fetchLog) |-> fetchLog[k].id]
NonEmptyIds(l) == SelectSeq(l, LAMBDA x : x # "")

\* The list names no neighbourhood twice (empty identifiers may repeat).
NoRepeat(l) == Cardinality({NonEmptyIds(l)[k] : k \in 1..Len(NonEmptyIds(l))}) = Len(NonEmptyIds(l))

\* C1: when get_prices returns, the identifiers it fetched are the non-empty
\* identifiers of the list it was called with, each once and in order, and
\* every fetch that succeeded left a snapshot under the identifier's own
\* name in the entry written for the date. Stated for the lists that name
\* no neighbourhood twice, where "each once" has one reading.
C1_ReachesEveryNeighbourhood ==
    (pc = "returned" /\ NoRepeat(neighbs0)) =>
        /\ FetchedIds = NonEmptyIds(neighbs0)
        /\ \A k \in 1..Len(fetchLog) :
               fetchLog[k].ok =>
                   /\ DictHas(DictGet(data, now), fetchLog[k].id)
                   /\ DictGet(DictGet(data, now), fetchLog[k].id).name = fetchLog[k].id

\* C2: after get_prices returns, self.neighbs holds no empty identifier and
\* no identifier whose fetch was unavailable in the call; it is the
\* identifiers whose fetch succeeded, in order; and no empty identifier was
\* passed to the page fetcher. Stated for the lists that name no
\* neighbourhood twice.
C2_ListHoldsTheFetchedOnly ==
    (pc = "returned" /\ NoRepeat(neighbs0)) =>
        /\ \A k \in 1..Len(neighbs) : neighbs[k] # ""
        /\ \A k \in 1..Len(fetchLog) :
               ~fetchLog[k].ok => \A j \in 1..Len(neighbs) : neighbs[j] # fetchLog[k].id
        /\ neighbs = [k \in 1..Len(SelectSeq(fetchLog, LAMBDA f : f.ok)) |->
                          SelectSeq(fetchLog, LAMBDA f : f.ok)[k].id]
        /\ \A k \in 1..Len(fetchLog) : fetchLog[k].id # ""

\* C3: when get_prices returns, self.data holds exactly one key for the
\* date written, the value under it is the result mapping of this run
\* alone, whatever an earlier run on the same date stored there, and no
\* neighbourhood appears twice under it.
C3_RerunReplacesTheDate ==
    pc = "returned" =>
        /\ Cardinality({k \in 1..Len(data) : data[k].k = now}) = 1
        /\ DictGet(data, now) = results
        /\ Cardinality(DictKeys(DictGet(data, now))) = Len(DictGet(data, now))

\* C3's case: a second call returns on a date for which an earlier call of
\* get_prices had stored a different, non-empty result mapping.
C3_Witness ==
    /\ pc = "returned"
    /\ calls >= 2
    /\ DictHas(data0, now)
    /\ DictGet(data0, now) # <<>>
    /\ \A k \in 1..Len(DictGet(data0, now)) : DictGet(data0, now)[k].v.date = now
    /\ results # <<>>
    /\ DictGet(data0, now) # results

\* The exceptions get_prices passes on from the fetcher, the parser and the
\* snapshot constructor.
PassedOn == {"ConnectionError", "IndexError", "AttributeError", "ValueError"}

\* C4: every invocation of get_prices that no fetch or parse failure ends
\* completes, having written exactly one date key, the date it read, and
\* having left the entries under every other key as they were.
C4_WritesOneDateKey ==
    (pc \in {"returned", "raised"} /\ dfRes.st # "raise" /\ exc \notin PassedOn) =>
        /\ pc = "returned"
        /\ DictKeys(data) = DictKeys(data0) \cup {now}
        /\ \A key \in DictKeys(data0) \ {now} : DictGet(data, key) = DictGet(data0, key)

RECURSIVE SnapshotRows(_)
SnapshotRows(neighbs_dict) ==
    IF neighbs_dict = <<>> THEN 0
    ELSE Len(Head(neighbs_dict).v.rooms) + SnapshotRows(Tail(neighbs_dict))

RECURSIVE TotalRows(_)
TotalRows(d) == IF d = <<>> THEN 0 ELSE SnapshotRows(Head(d).v) + TotalRows(Tail(d))

\* C5: the table to_df returns has as many rows as the snapshots under all
\* the date keys of self.data have room-count entries.
C5_ToDfCoversEveryDate ==
    (pc = "dfdone" /\ dfRes.st = "ok") => Len(dfRes.rows) = TotalRows(data)

\* C6: to_df on a CityPrices with no snapshot, be it with no date key or
\* with date entries that hold no neighbourhood, does not fail and returns
\* no row.
C6_ToDfEmptyWithoutData ==
    ((pc = "dfdone" \/ dfRes.st = "raise") /\ \A k \in 1..Len(data) : data[k].v = <<>>) =>
        /\ dfRes.st # "raise"
        /\ dfRes.rows = <<>>

\* C7: a NeighbourhoodPrices is constructed from a null mapping and from an
\* empty mapping alike, with zero entries, and then rendering it and
\* converting it do not raise.
C7_NullMappingConstructs ==
    (/\ p_date.t = "datetime"
     /\ p_pc \notin {"input", "parse_raised", "off"}
     /\ p_prices.st = "none" \/ p_prices.val = <<>>) =>
        /\ p_pc \notin {"new_raised", "str_raised"}
        /\ p_snap.val.rooms = <<>>

\* The mapping C8 states for a page of well-formed cells: room-count and
\* both prices as integers.
RECURSIVE ClaimedPrices(_)
ClaimedPrices(printed) ==
    IF printed = <<>> THEN <<>>
    ELSE LET c == printed[Len(printed)]
         IN  DictSet(ClaimedPrices(SubSeq(printed, 1, Len(printed) - 1)),
                     PyInt(c.room), <<PyInt(c.lo), PyInt(c.hi)>>)

PrintCells(printed) == [k \in 1..Len(printed) |-> PrintCell(printed[k])]

\* C8: for a pricing section of cells that are a range "A - B" or a single
\* value "A", retrieve_flat_prices returns the mapping from the integer
\* room-count to the integer pair (A, B), (A, A) for a single value.
C8_ParsesToIntegerPairs ==
    \A printed \in SeqsUpTo(Printed, MaxCells) :
        (p_pc \in {"parsed", "parse_raised"} /\ p_html = HtmlPage(PrintCells(printed))) =>
            p_prices = ParseOk(ClaimedPrices(printed))

\* C9: the rendering of a snapshot has one row for every entry, in the
\* order of self.rooms, the last entry included.
C9_RendersEveryRow ==
    p_pc = "rendered" =>
        p_str.rows = [i \in 1..Len(p_snap.val.rooms) |-> StrRow(p_snap.val, i)]

\* C10: every snapshot get_prices stored under a date key carries that
\* date and is stored under its own neighbourhood name. Stated for the
\* lists that name no neighbourhood twice.
C10_SnapshotsCarryTheirKey ==
    NoRepeat(neighbs0) =>
        \A k \in 1..Len(data) : \A j \in 1..Len(data[k].v) :
            /\ data[k].v[j].v.date = data[k].k
            /\ data[k].v[j].v.name = data[k].v[j].k

====
